---- MODULE Spec2Model ----
(***************************************************************************)
(* A model of the PCF8523 real-time-clock driver (src/pcf8523.go).         *)
(*                                                                         *)
(* The driver is a stateless adapter over an I2C transport.  The state of  *)
(* the model is the device's register file, the bus handle, what the       *)
(* caller holds, and the outcome of the last call: its name, arguments,    *)
(* return value, error and the transactions it issued.  Every exported     *)
(* function is an operator that computes that outcome from the register    *)
(* file and the transport's behaviour (which transactions fail), and an    *)
(* action that applies it.                                                 *)
(***************************************************************************)
EXTENDS Integers, Sequences, FiniteSets, TLC

VARIABLES
    regs,     \* the device's register file: register address -> byte
    bus,      \* the I2C bus handle: "unopened", "open" or "closed"
    handle,   \* what the caller holds: "none", "valid" (p) or "empty" (Pcf8523{})
    op,       \* the name of the last call
    args,     \* its arguments, a tuple
    ret,      \* its return value
    err,      \* its error
    txlog,    \* the transactions it issued, in order
    lastSet   \* the time and bytes of the last successful SetTime, while the
              \* device still holds exactly those bytes; NoTime otherwise

vars == <<regs, bus, handle, op, args, ret, err, txlog, lastSet>>

(***************************************************************************)
(* Bounds of the model.                                                    *)
(***************************************************************************)
\* SpecCorr calls AddTimeCorrection with every whole number of seconds per
\* day in -MaxSeconds..MaxSeconds: up to 125 LSBs either way
MaxSeconds == 47

(***************************************************************************)
(* Bytes, Go's integer arithmetic.                                         *)
(***************************************************************************)
Byte == 0..255
Int8 == -128..127

\* Bit i of a non-negative integer
Bit(x, i) == (x \div (2 ^ i)) % 2

\* a & b for every pair of bytes, computed once
BitAndTable ==
    [a \in Byte |-> [b \in Byte |->
        Bit(a, 0) * Bit(b, 0) + 2 * Bit(a, 1) * Bit(b, 1)
        + 4 * Bit(a, 2) * Bit(b, 2) + 8 * Bit(a, 3) * Bit(b, 3)
        + 16 * Bit(a, 4) * Bit(b, 4) + 32 * Bit(a, 5) * Bit(b, 5)
        + 64 * Bit(a, 6) * Bit(b, 6) + 128 * Bit(a, 7) * Bit(b, 7)]]

\* a & b of two bytes
BitAnd(a, b) == BitAndTable[a][b]

\* a | b of two bytes
BitOr(a, b) == a + b - BitAnd(a, b)

\* byte(x): the low eight bits of a two's-complement integer
ToByte(x) == x % 256

\* int8(b) of a byte: the same eight bits, signed
ToInt8(b) == IF b >= 128 THEN b - 256 ELSE b

\* int8 + int8 in Go: wraps around
AddInt8(a, b) == ToInt8(ToByte(a + b))

\* Go's integer division truncates toward zero
GoDiv(a, b) == IF a >= 0 THEN a \div b ELSE -((-a) \div b)

\* Go's remainder has the sign of the dividend
GoMod(a, b) == a - b * GoDiv(a, b)

(***************************************************************************)
(* The transport and the device behind it.                                 *)
(***************************************************************************)
Nil == "nil"
BusOpenError == "BusOpenError"
TransportError == "TransportError"
OscillatorStopped == "PCF8523 oscillator stopped"
InvalidConfiguration == "Invalid power management configuration"

\* The registers the driver uses
RegAddrs == (2..9) \cup {14}

\* Device.Tx(w, r) with len(r) = n.  The first byte written sets the register
\* pointer, the others are stored at it and after it; then n bytes are read
\* from the pointer on.  A failed transaction changes nothing and leaves the
\* read buffer as make() zeroed it.
Tx(dev, w, n, fail) ==
    IF fail
    THEN [dev |-> dev, r |-> [i \in 1..n |-> 0], ok |-> FALSE]
    ELSE LET a == w[1]
             k == Len(w) - 1
             dev2 == [x \in DOMAIN dev |->
                        IF x >= a /\ x < a + k THEN w[x - a + 2] ELSE dev[x]]
         IN [dev |-> dev2, r |-> [i \in 1..n |-> dev2[a + k + i - 1]], ok |-> TRUE]

\* What the log keeps of one transaction
Entry(w, t) == [w |-> w, r |-> t.r, ok |-> t.ok]

\* The oscillator-stop flag is the hardware's: while the oscillator does not
\* run, the chip sets it again after the driver cleared it.
HwOscillator(dev, stopped) ==
    IF stopped THEN [dev EXCEPT ![3] = BitOr(@, 128)] ELSE dev

(***************************************************************************)
(* ReadReg, WriteReg                                                       *)
(***************************************************************************)
ReadReg(dev, address, fail) ==
    LET t == Tx(dev, <<address>>, 1, fail)
    IN IF ~t.ok
       THEN [dev |-> t.dev, val |-> 0, err |-> TransportError,
             log |-> <<Entry(<<address>>, t)>>]
       ELSE [dev |-> t.dev, val |-> t.r[1], err |-> Nil,
             log |-> <<Entry(<<address>>, t)>>]

WriteReg(dev, address, value, fail) ==
    LET t == Tx(dev, <<address, value>>, 0, fail)
    IN [dev |-> t.dev, err |-> IF t.ok THEN Nil ELSE TransportError,
        log |-> <<Entry(<<address, value>>, t)>>]

\* The outcome of a call on a handle: the register file after it, what it
\* returned and the transactions it issued
Outcome(dev, r, e, log) == [dev |-> dev, ret |-> r, err |-> e, log |-> log]

NoValue == "none"

ReadRegCall(dev, address, fail) ==
    LET r == ReadReg(dev, address, fail)
    IN Outcome(r.dev, r.val, r.err, r.log)

WriteRegCall(dev, address, value, fail) ==
    LET w == WriteReg(dev, address, value, fail)
    IN Outcome(w.dev, NoValue, w.err, w.log)

(***************************************************************************)
(* NewPcf8523 and Close                                                    *)
(***************************************************************************)
\* ClearOS with the flag left in the byte written back
ClearOS_KeepsFlag(b) == b

\* seconds_reg & 0x7F: the byte written back
ClearOS(b) == BitAnd(b, 127)

\* seconds_reg & 0x80 != 0
OSFlagSet(b) == BitAnd(b, 128) # 0

OpenOutcome(dev, b, h, e, log) ==
    [dev |-> dev, bus |-> b, handle |-> h, err |-> e, log |-> log]

\* openFails: i2creg.Open fails.  f1, fw, f2: the first read, the write and
\* the second read fail.  stopped: the oscillator does not start.
NewPcf8523(dev, openFails, f1, fw, f2, stopped) ==
    IF openFails
    THEN OpenOutcome(dev, "unopened", "empty", BusOpenError, <<>>)
    ELSE
    LET r1 == ReadReg(dev, 3, f1)
    IN IF r1.err # Nil
       THEN OpenOutcome(r1.dev, "open", "empty", r1.err, r1.log)
       ELSE IF OSFlagSet(r1.val)
       THEN LET w == WriteReg(r1.dev, 3, ClearOS(r1.val), fw)
            IN IF w.err # Nil
               \* "return Pcf8523{}, err": err is the first read's, nil here
               THEN OpenOutcome(w.dev, "open", "empty", r1.err, r1.log \o w.log)
               ELSE
               LET r2 == ReadReg(HwOscillator(w.dev, stopped), 3, f2)
                   log == r1.log \o w.log \o r2.log
               IN IF r2.err # Nil
                  THEN OpenOutcome(r2.dev, "open", "empty", r2.err, log)
                  ELSE IF OSFlagSet(r2.val)
                  THEN OpenOutcome(r2.dev, "open", "empty", OscillatorStopped, log)
                  ELSE OpenOutcome(r2.dev, "open", "valid", Nil, log)
       ELSE OpenOutcome(r1.dev, "open", "valid", Nil, r1.log)

\* p.bus.Close(): the bus handle is closed, nothing else changes
Close(b) == "closed"

(***************************************************************************)
(* Power management                                                        *)
(***************************************************************************)
\* PackPowerManagement with the polarity of the switchover bit not inverted
PackPowerManagement_NotInverted(switchover, directSwitchingMode, batteryLowDetection) ==
    (IF directSwitchingMode THEN 1 ELSE 0) + (IF switchover THEN 2 ELSE 0)
    + (IF ~batteryLowDetection THEN 4 ELSE 0)

PackPowerManagement(switchover, directSwitchingMode, batteryLowDetection) ==
    LET v0 == 0
        v1 == IF directSwitchingMode THEN BitOr(v0, 1) ELSE v0
        v2 == IF ~switchover THEN BitOr(v1, 2) ELSE v1
        v3 == IF ~batteryLowDetection THEN BitOr(v2, 4) ELSE v2
    IN v3

\* ConfigurePowerManagement keeping the flags the register holds
ConfigurePowerManagement_KeepsFlags(dev, switchover, directSwitchingMode, batteryLowDetection, fail) ==
    LET value == PackPowerManagement(switchover, directSwitchingMode, batteryLowDetection)
    IN IF value = 6
       THEN Outcome(dev, NoValue, InvalidConfiguration, <<>>)
       ELSE WriteRegCall(dev, 2, BitOr(dev[2], ToByte(value)), fail)

ConfigurePowerManagement(dev, switchover, directSwitchingMode, batteryLowDetection, fail) ==
    LET value == PackPowerManagement(switchover, directSwitchingMode, batteryLowDetection)
    IN IF value = 6
       THEN Outcome(dev, NoValue, InvalidConfiguration, <<>>)
       ELSE WriteRegCall(dev, 2, ToByte(value), fail)

IsBatteryLow(dev, fail) ==
    LET r == ReadReg(dev, 2, fail)
    IN Outcome(r.dev, BitAnd(r.val, 4) # 0, r.err, r.log)

(***************************************************************************)
(* Time correction                                                         *)
(***************************************************************************)
\* SignExtend that clears the high bit whatever bit 6 is
SignExtend_ClearsHighBit(c) == BitAnd(c, 127)

\* Overwrite the high bit with bit 6
SignExtend(c) ==
    IF BitAnd(c, 64) # 0 THEN BitOr(c, 128) ELSE BitAnd(c, 127)

getCorrection(dev, fail) ==
    LET r == ReadReg(dev, 14, fail)
    IN IF r.err # Nil
       THEN Outcome(r.dev, 0, r.err, r.log)
       ELSE Outcome(r.dev, ToInt8(SignExtend(r.val)), Nil, r.log)

\* secondsPerDay * 11.57407 / 4.34 with its fraction dropped, for a whole
\* number of seconds per day
SecondsToLsb(secondsPerDay) == GoDiv(secondsPerDay * 1157407, 434000)

\* int8(secondsPerDay * 11.57407 / 4.34).  Go leaves the conversion of a value
\* that int8 cannot represent to the implementation: the low eight bits (the
\* compiler converts to a wider integer and narrows) or the nearest int8.
OffsetsOf(secondsPerDay) ==
    LET lsb == SecondsToLsb(secondsPerDay)
    IN IF lsb \in Int8
       THEN {lsb}
       ELSE {ToInt8(ToByte(lsb)), IF lsb > 127 THEN 127 ELSE -128}

Saturate(new_correction) ==
    LET c1 == IF new_correction > 63 THEN 63 ELSE new_correction
        c2 == IF c1 < -64 THEN -64 ELSE c1
    IN c2

\* offset is int8(secondsPerDay * 11.57407 / 4.34)
AddTimeCorrection(dev, offset, failRead, failWrite) ==
    LET g == getCorrection(dev, failRead)
    IN IF g.err # Nil
       THEN Outcome(g.dev, NoValue, g.err, g.log)
       ELSE LET new_correction == Saturate(AddInt8(g.ret, offset))
                w == WriteReg(g.dev, 14, BitAnd(ToByte(new_correction), 127), failWrite)
            IN Outcome(w.dev, NoValue, w.err, g.log \o w.log)

ResetTimeCorrection(dev, fail) == WriteRegCall(dev, 14, 0, fail)

(***************************************************************************)
(* Calendar time.  A time.Time is its civil date and time of day in its    *)
(* own location; offset is that location's hours east of UTC.              *)
(***************************************************************************)
Time(y, mo, d, h, mi, s, off) ==
    [year |-> y, month |-> mo, day |-> d, hour |-> h, minute |-> mi,
     second |-> s, offset |-> off]

\* time.Time{}
ZeroTime == Time(1, 1, 1, 0, 0, 0, 0)

IsLeap(y) == y % 4 = 0 /\ (y % 100 # 0 \/ y % 400 = 0)

DaysIn(y, mo) ==
    IF mo = 2 THEN (IF IsLeap(y) THEN 29 ELSE 28)
    ELSE IF mo \in {4, 6, 9, 11} THEN 30 ELSE 31

RECURSIVE NormDay(_, _, _)
\* The date that is day d of month mo of year y, d counted on past either end
\* of the month
NormDay(y, mo, d) ==
    IF d < 1
    THEN LET py == IF mo = 1 THEN y - 1 ELSE y
             pm == IF mo = 1 THEN 12 ELSE mo - 1
         IN NormDay(py, pm, d + DaysIn(py, pm))
    ELSE IF d > DaysIn(y, mo)
    THEN NormDay(IF mo = 12 THEN y + 1 ELSE y, IF mo = 12 THEN 1 ELSE mo + 1,
                 d - DaysIn(y, mo))
    ELSE <<y, mo, d>>

\* time.Date(y, mo, d, h, mi, s, 0, time.UTC): values out of range carry into
\* the next field
Date(y, mo, d, h, mi, s) ==
    LET m0 == mo - 1
        y1 == y + (m0 \div 12)
        m1 == (m0 % 12) + 1
        mi1 == mi + (s \div 60)
        h1 == h + (mi1 \div 60)
        d1 == d + (h1 \div 24)
        ymd == NormDay(y1, m1, d1)
    IN Time(ymd[1], ymd[2], ymd[3], h1 % 24, mi1 % 60, s % 60, 0)

\* date.In(time.UTC)
InUTC(date) ==
    Date(date.year, date.month, date.day, date.hour - date.offset,
         date.minute, date.second)

\* The days from 0001-01-01 to the first day of year y
DaysBeforeYear(y) ==
    365 * (y - 1) + ((y - 1) \div 4) - ((y - 1) \div 100) + ((y - 1) \div 400)

RECURSIVE DaysBeforeMonth(_, _)
DaysBeforeMonth(y, mo) ==
    IF mo = 1 THEN 0 ELSE DaysBeforeMonth(y, mo - 1) + DaysIn(y, mo - 1)

\* date.Weekday(): Sunday is 0; 0001-01-01 was a Monday
Weekday(date) ==
    (1 + DaysBeforeYear(date.year) + DaysBeforeMonth(date.year, date.month)
       + date.day - 1) % 7

(***************************************************************************)
(* BCD, GetTime, SetTime                                                   *)
(***************************************************************************)
\* The year the chip counts from
Epoch == 2000

\* parseBcd with the high nibble taken as sixteens
parseBcd_Hex(value) ==
    ToByte(BitAnd(value, 15) + ToByte(BitAnd(value \div 16, 15) * 16))

\* byte((value & 0xF) + (((value >> 4) & 0xF) * 10)), in byte arithmetic
parseBcd(value) ==
    ToByte(BitAnd(value, 15) + ToByte(BitAnd(value \div 16, 15) * 10))

\* byte((value % 10) | ((value / 10) << 4)) of an int: the low eight bits of
\* the operands decide the byte
encodeBcd(value) ==
    BitOr(ToByte(GoMod(value, 10)), ToByte(GoDiv(value, 10) * 16))

GetTime(dev, fail) ==
    LET w == <<3>>
        t == Tx(dev, w, 7, fail)
        r == t.r
    IN IF ~t.ok
       THEN Outcome(t.dev, ZeroTime, TransportError, <<Entry(w, t)>>)
       ELSE Outcome(t.dev,
                    Date(Epoch + parseBcd(r[7]),
                         parseBcd(r[6]),
                         parseBcd(r[4]),
                         parseBcd(r[3]),
                         parseBcd(r[2]),
                         BitAnd(parseBcd(r[1]), 127)),
                    Nil, <<Entry(w, t)>>)

\* The eight bytes SetTime writes
SetTimeBytes(date) ==
    LET d == InUTC(date)
    IN <<3,
         encodeBcd(d.second),
         encodeBcd(d.minute),
         encodeBcd(d.hour),
         encodeBcd(d.day),
         encodeBcd(Weekday(d)),
         encodeBcd(d.month),
         encodeBcd(d.year - Epoch)>>

SetTime(dev, date, fail) ==
    LET w == SetTimeBytes(date)
        t == Tx(dev, w, 0, fail)
    IN Outcome(t.dev, NoValue, IF t.ok THEN Nil ELSE TransportError,
               <<Entry(w, t)>>)

(***************************************************************************)
(* The calls as actions.                                                   *)
(***************************************************************************)
NoTime == [set |-> FALSE, t |-> ZeroTime, block |-> <<>>]

\* The seven bytes of registers 3 to 9
TimeBlock(dev) == [i \in 1..7 |-> dev[2 + i]]

\* A call on the handle p: the device, and what the call returned
Apply(name, a, out) ==
    /\ handle = "valid"
    /\ regs' = out.dev
    /\ op' = name
    /\ args' = a
    /\ ret' = out.ret
    /\ err' = out.err
    /\ txlog' = out.log
    /\ UNCHANGED <<bus, handle>>

\* lastSet is kept while the device holds the bytes SetTime wrote
KeepLastSet ==
    lastSet' = IF lastSet.set /\ TimeBlock(regs') = lastSet.block
               THEN lastSet ELSE NoTime

Call_NewPcf8523(openFails, f1, fw, f2, stopped) ==
    /\ handle = "none"
    /\ LET out == NewPcf8523(regs, openFails, f1, fw, f2, stopped)
       IN /\ regs' = out.dev
          /\ bus' = out.bus
          /\ handle' = out.handle
          /\ op' = "NewPcf8523"
          /\ args' = <<>>
          /\ ret' = out.handle
          /\ err' = out.err
          /\ txlog' = out.log
    /\ UNCHANGED lastSet

Call_Close ==
    /\ handle = "valid"
    /\ bus' = Close(bus)
    /\ op' = "Close"
    /\ args' = <<>>
    /\ ret' = NoValue
    /\ err' = Nil
    /\ txlog' = <<>>
    /\ UNCHANGED <<regs, handle, lastSet>>

Call_ReadReg(address, fail) ==
    /\ Apply("ReadReg", <<address>>, ReadRegCall(regs, address, fail))
    /\ KeepLastSet

Call_WriteReg(address, value, fail) ==
    /\ Apply("WriteReg", <<address, value>>, WriteRegCall(regs, address, value, fail))
    /\ KeepLastSet

Call_ConfigurePowerManagement(switchover, directSwitchingMode, batteryLowDetection, fail) ==
    /\ Apply("ConfigurePowerManagement",
             <<switchover, directSwitchingMode, batteryLowDetection>>,
             ConfigurePowerManagement(regs, switchover, directSwitchingMode,
                                      batteryLowDetection, fail))
    /\ KeepLastSet

Call_IsBatteryLow(fail) ==
    /\ Apply("IsBatteryLow", <<>>, IsBatteryLow(regs, fail))
    /\ KeepLastSet

Call_getCorrection(fail) ==
    /\ Apply("getCorrection", <<>>, getCorrection(regs, fail))
    /\ KeepLastSet

Call_AddTimeCorrection(secondsPerDay, failRead, failWrite) ==
    /\ \E offset \in OffsetsOf(secondsPerDay) :
          Apply("AddTimeCorrection", <<secondsPerDay>>,
                AddTimeCorrection(regs, offset, failRead, failWrite))
    /\ KeepLastSet

Call_ResetTimeCorrection(fail) ==
    /\ Apply("ResetTimeCorrection", <<>>, ResetTimeCorrection(regs, fail))
    /\ KeepLastSet

Call_GetTime(fail) ==
    /\ Apply("GetTime", <<>>, GetTime(regs, fail))
    /\ KeepLastSet

Call_SetTime(date, fail) ==
    /\ Apply("SetTime", <<date>>, SetTime(regs, date, fail))
    /\ lastSet' = IF err' = Nil
                  THEN [set |-> TRUE, t |-> date, block |-> TimeBlock(regs')]
                  ELSE IF lastSet.set /\ TimeBlock(regs') = lastSet.block
                  THEN lastSet ELSE NoTime

\* The hardware: the oscillator stops and the chip sets the flag
OscillatorStops ==
    /\ ~OSFlagSet(regs[3])
    /\ regs' = HwOscillator(regs, TRUE)
    /\ KeepLastSet
    /\ UNCHANGED <<bus, handle, op, args, ret, err, txlog>>

(***************************************************************************)
(* Construction: NewPcf8523 over every content of the seconds register.    *)
(***************************************************************************)
InitOpen ==
    /\ regs \in {[a \in RegAddrs |-> IF a = 3 THEN b ELSE 0] : b \in Byte}
    /\ bus = "unopened"
    /\ handle = "none"
    /\ op = "start"
    /\ args = <<>>
    /\ ret = NoValue
    /\ err = Nil
    /\ txlog = <<>>
    /\ lastSet = NoTime

NextOpen ==
    \/ \E openFails, f1, fw, f2, stopped \in BOOLEAN :
          Call_NewPcf8523(openFails, f1, fw, f2, stopped)
    \/ Call_Close

SpecOpen == InitOpen /\ [][NextOpen]_vars

(***************************************************************************)
(* A constructed handle: the state NewPcf8523 leaves on success, over the  *)
(* register contents given.                                                *)
(***************************************************************************)
Constructed(devs) ==
    /\ regs \in devs
    /\ bus = "open"
    /\ handle = "valid"
    /\ op = "start"
    /\ args = <<>>
    /\ ret = NoValue
    /\ err = Nil
    /\ txlog = <<>>
    /\ lastSet = NoTime

(***************************************************************************)
(* Power management, over every content of register 2.                     *)
(***************************************************************************)
InitPM == Constructed({[a \in RegAddrs |-> IF a = 2 THEN b ELSE 0] : b \in Byte})

NextPM ==
    \/ \E switchover, directSwitchingMode, batteryLowDetection, fail \in BOOLEAN :
          Call_ConfigurePowerManagement(switchover, directSwitchingMode,
                                        batteryLowDetection, fail)
    \/ \E fail \in BOOLEAN : Call_IsBatteryLow(fail)

SpecPM == InitPM /\ [][NextPM]_vars

(***************************************************************************)
(* Time correction, over every content of register 14.                     *)
(***************************************************************************)
InitCorr == Constructed({[a \in RegAddrs |-> IF a = 14 THEN b ELSE 0] : b \in Byte})

\* The transport does not fail here: the failures of these calls are part of
\* Spec.
NextCorr ==
    \/ \E secondsPerDay \in -MaxSeconds..MaxSeconds :
          Call_AddTimeCorrection(secondsPerDay, FALSE, FALSE)
    \/ Call_ResetTimeCorrection(FALSE)
    \/ Call_getCorrection(FALSE)

SpecCorr == InitCorr /\ [][NextCorr]_vars

(***************************************************************************)
(* Time: SetTime over a set of times, GetTime, and the oscillator.         *)
(***************************************************************************)
\* 2024-03-15 12:34:56 UTC with each field in turn over its whole range
Sweeps ==
    {Time(2024, 3, 15, 12, 34, s, 0) : s \in 0..59}
    \cup {Time(2024, 3, 15, 12, mi, 56, 0) : mi \in 0..59}
    \cup {Time(2024, 3, 15, h, 34, 56, 0) : h \in 0..23}
    \cup {Time(2024, 3, d, 12, 34, 56, 0) : d \in 1..31}
    \cup {Time(2024, mo, 15, 12, 34, 56, 0) : mo \in 1..12}
    \cup {Time(y, 3, 15, 12, 34, 56, 0) : y \in 2000..2099}

\* The ends of the chip's range and a leap day, in UTC and in two zones
Corners ==
    {Time(2000, 1, 1, 0, 0, 0, off) : off \in {0, -5}}
    \cup {Time(2099, 12, 31, 23, 59, 59, off) : off \in {0, 2}}
    \cup {Time(2024, 2, 29, 23, 59, 59, off) : off \in {0, 2, -5}}
    \cup {Time(2023, 3, 1, 0, 0, 0, off) : off \in {0, 2}}

\* Times whose UTC year the chip cannot hold
OutOfRange ==
    {Time(1999, 12, 31, 23, 59, 59, 0), Time(2000, 1, 1, 0, 30, 0, 1),
     Time(2100, 1, 1, 0, 0, 0, 0), Time(2160, 6, 15, 12, 0, 0, 0)}

Times == Sweeps \cup Corners \cup OutOfRange

ZeroRegs == [a \in RegAddrs |-> 0]

\* The register file of a chip that holds time t
HoldingTime(t) == Tx(ZeroRegs, SetTimeBytes(t), 0, FALSE).dev

InitTime == Constructed({HoldingTime(t) : t \in Corners})

\* The transport does not fail on SetTime here: its failure is part of Spec.
NextTime ==
    \/ \E date \in Times : Call_SetTime(date, FALSE)
    \/ \E fail \in BOOLEAN : Call_GetTime(fail)
    \/ OscillatorStops

SpecTime == InitTime /\ [][NextTime]_vars

(***************************************************************************)
(* The life of a handle: NewPcf8523, every call with a few arguments and   *)
(* a transport that may fail any transaction, and Close.  The driver       *)
(* keeps no record of Close, and what a transaction on a closed bus does   *)
(* is the transport's: it may fail or go through.                          *)
(***************************************************************************)
UseTimes == {Time(2024, 2, 29, 23, 59, 59, 0), Time(2099, 12, 31, 23, 59, 59, 2)}

\* Past both ends of what int8 holds in LSBs
UseSeconds == {-50, 50}

UseRegs == {2, 14}

UseValues == {0, 255}

Init ==
    /\ regs \in {HwOscillator(HoldingTime(Time(2000, 1, 1, 0, 0, 0, 0)), os) :
                    os \in BOOLEAN}
    /\ bus = "unopened"
    /\ handle = "none"
    /\ op = "start"
    /\ args = <<>>
    /\ ret = NoValue
    /\ err = Nil
    /\ txlog = <<>>
    /\ lastSet = NoTime

Next ==
    \/ \E openFails, f1, fw, f2, stopped \in BOOLEAN :
          Call_NewPcf8523(openFails, f1, fw, f2, stopped)
    \/ Call_Close
    \/ \E address \in UseRegs, fail \in BOOLEAN : Call_ReadReg(address, fail)
    \/ \E address \in UseRegs, value \in UseValues, fail \in BOOLEAN :
          Call_WriteReg(address, value, fail)
    \/ \E switchover, directSwitchingMode, batteryLowDetection, fail \in BOOLEAN :
          Call_ConfigurePowerManagement(switchover, directSwitchingMode,
                                        batteryLowDetection, fail)
    \/ \E fail \in BOOLEAN : Call_IsBatteryLow(fail)
    \/ \E secondsPerDay \in UseSeconds, failRead, failWrite \in BOOLEAN :
          Call_AddTimeCorrection(secondsPerDay, failRead, failWrite)
    \/ \E fail \in BOOLEAN : Call_ResetTimeCorrection(fail)
    \/ \E fail \in BOOLEAN : Call_GetTime(fail)
    \/ \E date \in UseTimes, fail \in BOOLEAN : Call_SetTime(date, fail)

Spec == Init /\ [][Next]_vars

(***************************************************************************)
(* The claims about construction.                                          *)
(***************************************************************************)
AllOk == \A i \in DOMAIN txlog : txlog[i].ok

SomeFailed == \E i \in DOMAIN txlog : ~txlog[i].ok

\* C1: if a transaction issued by NewPcf8523 fails, NewPcf8523 returns an
\* error and no usable handle.
C1_FailedTransactionIsReported ==
    (op = "NewPcf8523" /\ SomeFailed) => (err # Nil /\ handle # "valid")

\* C2: with every transaction succeeding, NewPcf8523 reads register 3; with
\* bit 7 clear it succeeds and writes nothing; with bit 7 set it writes the
\* byte less bit 7 to register 3 once, reads register 3 again, and succeeds
\* exactly when bit 7 of that byte is clear, failing with the
\* oscillator-stopped error otherwise.
C2_OscillatorRecovery ==
    (op = "NewPcf8523" /\ bus = "open" /\ AllOk) =>
        /\ Len(txlog) >= 1
        /\ txlog[1].w = <<3>>
        /\ LET first == txlog[1].r[1]
           IN IF first < 128
              THEN Len(txlog) = 1 /\ err = Nil /\ handle = "valid"
              ELSE /\ Len(txlog) = 3
                   /\ txlog[2].w = <<3, first - 128>>
                   /\ txlog[3].w = <<3>>
                   /\ (txlog[3].r[1] < 128) <=> (err = Nil /\ handle = "valid")
                   /\ (txlog[3].r[1] >= 128) =>
                          (err = OscillatorStopped /\ handle = "empty")

\* The flag was set over seconds 0x59, the driver wrote 0x59 back and the
\* oscillator started.
C2_Witness ==
    /\ op = "NewPcf8523"
    /\ Len(txlog) = 3
    /\ AllOk
    /\ txlog[1].r = <<217>>
    /\ txlog[2].w = <<3, 89>>
    /\ err = Nil
    /\ handle = "valid"

\* C7: when NewPcf8523 fails after the bus was opened, the bus has been
\* closed by the time it returns.
C7_FailedOpenReleasesBus ==
    (op = "NewPcf8523" /\ handle = "empty" /\ bus # "unopened") => bus = "closed"

(***************************************************************************)
(* The claims about power management.                                      *)
(***************************************************************************)
\* C4 as stated: ConfigurePowerManagement(false, true, true) fails with the
\* invalid-configuration error, issues no bus write and leaves register 2
\* unchanged.
C4_FalseTrueTrueRejected ==
    [][(op' = "ConfigurePowerManagement" /\ args' = <<FALSE, TRUE, TRUE>>) =>
          (err' = InvalidConfiguration /\ txlog' = <<>> /\ regs'[2] = regs[2])]_vars

\* C4 as amended: ConfigurePowerManagement(false, false, false), the
\* combination that packs to 0b110, fails with the invalid-configuration
\* error, issues no bus write and leaves register 2 unchanged.
C4_InvalidCombinationRejected ==
    [][(op' = "ConfigurePowerManagement" /\ args' = <<FALSE, FALSE, FALSE>>) =>
          (err' = InvalidConfiguration /\ txlog' = <<>> /\ regs'[2] = regs[2])]_vars

\* The reserved combination was asked for over a register holding 0xFF.
C4_Witness ==
    /\ op = "ConfigurePowerManagement"
    /\ args = <<FALSE, FALSE, FALSE>>
    /\ err = InvalidConfiguration
    /\ regs[2] = 255

\* C8: a successful ConfigurePowerManagement leaves register 2 equal to the
\* packed value (bit 0 directSwitchingMode, bit 1 NOT switchover, bit 2 NOT
\* batteryLowDetection, bits 3-7 zero) whatever the register held, by one
\* write of that byte.
C8_FullOverwrite ==
    (op = "ConfigurePowerManagement" /\ err = Nil) =>
        LET packed == (IF args[2] THEN 1 ELSE 0) + (IF args[1] THEN 0 ELSE 2)
                      + (IF args[3] THEN 0 ELSE 4)
        IN /\ regs[2] = packed
           /\ Len(txlog) = 1
           /\ txlog[1].w = <<2, packed>>

\* Switchover on, direct switching, no battery-low detection: 0b101 written.
C8_Witness ==
    /\ op = "ConfigurePowerManagement"
    /\ err = Nil
    /\ args = <<TRUE, TRUE, FALSE>>
    /\ regs[2] = 5

(***************************************************************************)
(* The claims about the time correction.                                   *)
(***************************************************************************)
\* The correction a byte of register 14 stores: bits 0-6 as a 7-bit
\* two's-complement number
Stored(b) == LET low == b % 128 IN IF low >= 64 THEN low - 128 ELSE low

Clamp(x) == IF x > 63 THEN 63 ELSE IF x < -64 THEN -64 ELSE x

\* C3: after a successful AddTimeCorrection of d LSBs over a stored
\* correction c, the stored correction is max(-64, min(63, c + d)), c + d
\* the true integer sum.
C3_SaturatingAdd ==
    [][(op' = "AddTimeCorrection" /\ err' = Nil) =>
          Stored(regs'[14]) = Clamp(Stored(regs[14]) + SecondsToLsb(args'[1]))]_vars

\* C10: getCorrection's result depends only on bits 0-6 of the byte read; it
\* is their 7-bit two's-complement value, in [-64, -1] with bit 6 set and in
\* [0, 63] with bit 6 clear.
C10_SignExtension ==
    (op = "getCorrection" /\ err = Nil) =>
        LET raw == txlog[1].r[1]
            low == raw % 128
        IN /\ raw = regs[14]
           /\ ret = (IF low >= 64 THEN low - 128 ELSE low)
           /\ (low \div 64 = 1) => ret \in -64..-1
           /\ (low \div 64 = 0) => ret \in 0..63

\* 0xC0 read, bit 7 and bit 6 set: -64.
C10_Witness ==
    /\ op = "getCorrection"
    /\ err = Nil
    /\ regs[14] = 192
    /\ ret = -64

(***************************************************************************)
(* The claims about the time.                                              *)
(***************************************************************************)
\* The time SetTime last stored, as UTC, is one the chip can hold
InChipRange(t) == InUTC(t).year \in 2000..2099

\* C6: GetTime after a successful SetTime(t), t a whole second of the years
\* 2000 to 2099 in UTC, on a device that holds the bytes written, returns t
\* in UTC: the same year, month, day, hour, minute and second.
C6_TimeRoundTrip ==
    (op = "GetTime" /\ err = Nil /\ lastSet.set /\ InChipRange(lastSet.t)) =>
        LET t == lastSet.t
        IN /\ ret = InUTC(t)
           /\ t.offset = 0 =>
                 /\ ret.year = t.year /\ ret.month = t.month /\ ret.day = t.day
                 /\ ret.hour = t.hour /\ ret.minute = t.minute
                 /\ ret.second = t.second

\* 2099-12-31 23:59:59 at two hours east of UTC came back as 21:59:59 UTC.
C6_Witness ==
    /\ op = "GetTime"
    /\ err = Nil
    /\ lastSet.set
    /\ lastSet.t = Time(2099, 12, 31, 23, 59, 59, 2)
    /\ ret = Time(2099, 12, 31, 21, 59, 59, 0)

\* C9: the seconds of the time GetTime returns are the BCD decoding of bits
\* 0-6 of the first byte read, whether bit 7 is set or clear.
C9_SecondsMaskOSFlag ==
    (op = "GetTime" /\ err = Nil) =>
        LET low == txlog[1].r[1] % 128
        IN ret.second = (low % 16) + 10 * (low \div 16)

(***************************************************************************)
(* The claim about Close.                                                  *)
(***************************************************************************)
DeviceCalls ==
    {"ReadReg", "WriteReg", "ConfigurePowerManagement", "IsBatteryLow",
     "AddTimeCorrection", "ResetTimeCorrection", "GetTime", "SetTime"}

\* C5: a call on a handle after Close fails with an error and performs no
\* bus transaction.  (Close leaves bus "closed" and no call changes it, so a
\* last call among DeviceCalls with the bus closed was made after Close.)
C5_ClosedHandleRefuses ==
    (bus = "closed" /\ op \in DeviceCalls) => (err # Nil /\ txlog = <<>>)

====
